---- MODULE Spec2Model ----
(***************************************************************************)
(* The pipeline driver go() of main.py: it sets two environment values,    *)
(* resolves the selection of steps, and inside a temporary directory runs  *)
(* six guarded blocks in a fixed textual order, each delegating one step   *)
(* to mlflow.run and logging and re-raising whatever it raises.            *)
(*                                                                         *)
(* A Python string is modelled as a sequence of lexemes: a lexeme is the   *)
(* comma character "," or a non-empty run of characters without a comma.   *)
(* The string "data_get,data_clean" is <<"data_get", ",", "data_clean">>   *)
(* and the empty string is <<>>.  A filesystem path is the sequence of its *)
(* components, an absolute one starting with the component "/".            *)
(***************************************************************************)
EXTENDS Integers, Sequences, FiniteSets, TLC

\* The longest selection enumerated exhaustively over Names.
MaxLen == 2

----------------------------------------------------------------------------
\* Strings, paths, YAML

\* A one-lexeme string (the literal "data_get" of line 29, ...).
Str(w) == <<w>>

Comma == ","

RECURSIVE FirstComma(_, _)
\* str.find(","): the index of the first comma at or after i, 0 when none.
FirstComma(s, i) ==
  IF i > Len(s) THEN 0
  ELSE IF s[i] = Comma THEN i
  ELSE FirstComma(s, i + 1)

\* A resolver that does not split: the whole string is the one element.
Split_whole(s) == <<s>>

RECURSIVE Split(_)
\* str.split(","): the pieces between the commas; never an empty list.
Split(s) ==
  LET k == FirstComma(s, 1)
  IN IF k = 0 THEN <<s>>
     ELSE <<SubSeq(s, 1, k - 1)>> \o Split(SubSeq(s, k + 1, Len(s)))

\* os.path.isabs
IsAbs(p) == Len(p) > 0 /\ p[1] = "/"

\* os.path.join(a, b): an absolute b discards a.
PathJoin(a, b) == IF IsAbs(b) THEN b ELSE a \o b

\* os.path.abspath(p) with the process's working directory d.
AbsPath(d, p) == PathJoin(d, p)

\* OmegaConf.to_yaml of a flat section (an ordered mapping, modelled as a
\* sequence of <<key, value>>): one line "key: value\n" per entry, in order.
ToYaml(p) ==
  [i \in 1..(4 * Len(p)) |->
     LET e == p[((i - 1) \div 4) + 1]
     IN CASE i % 4 = 1 -> e[1]
          [] i % 4 = 2 -> ": "
          [] i % 4 = 3 -> e[2]
          [] OTHER     -> "\n"]

\* config[section][key] of an ordered mapping.
Lookup(p, k) == p[CHOOSE i \in 1..Len(p) : p[i][1] = k][2]

----------------------------------------------------------------------------
\* The run configuration and the world go() starts in

\* The blocks with data_check standing after data_split.
StepOrder_swapped ==
  <<"data_get", "data_clean", "data_split", "data_check",
    "train_random_forest", "test_model">>

\* The six guarded blocks of go(), in the order they stand in the text.
StepOrder ==
  <<"data_get", "data_clean", "data_check", "data_split",
    "train_random_forest", "test_model">>

Steps == {StepOrder[i] : i \in 1..Len(StepOrder)}

\* Names a selection may hold: the six steps, an unrecognised name, and an
\* unrecognised name that itself contains a comma.
Names == {Str(s) : s \in Steps} \cup {Str("bogus"), <<"x", Comma, "y">>}

RECURSIVE CommaJoin(_)
\* ",".join(names): how a list of names is written on the command line.
CommaJoin(names) ==
  IF names = <<>> THEN <<>>
  ELSE IF Len(names) = 1 THEN names[1]
  ELSE names[1] \o <<Comma>> \o CommaJoin(Tail(names))

Reverse(s) == [i \in 1..Len(s) |-> s[Len(s) + 1 - i]]

\* The lists of names enumerated: every list of at most MaxLen names, the
\* default selection of all six steps, and the same in reverse.
Selections ==
  UNION {[1..n -> Names] : n \in 0..MaxLen}
    \cup {[i \in 1..Len(StepOrder) |-> Str(StepOrder[i])],
          Reverse([i \in 1..Len(StepOrder) |-> Str(StepOrder[i])])}

\* main.execute_steps as the configuration holds it: a list of names, or
\* one string.
ExecuteStepsValues ==
  {[form |-> "list", value |-> n] : n \in Selections}
    \cup {[form |-> "str", value |-> CommaJoin(n)] : n \in Selections}

\* The sections of the configuration other than main.execute_steps.
BaseConfigs ==
  { [main |-> [project_name |-> "nyc_airbnb", experiment_name |-> "development",
               random_state |-> 42],
     data |-> [sample |-> <<"sample1.csv">>, test_size |-> "0.2",
               val_size |-> "0.2", stratify |-> "neighbourhood_group"],
     etl |-> [min_price |-> 10, max_price |-> 350],
     data_check |-> [kl_threshold |-> "0.2"],
     pipeline |-> << <<"export_artifact", "random_forest_export">>,
                     <<"max_tfidf_features", "5">> >>],
    [main |-> [project_name |-> "rentals", experiment_name |-> "prod",
               random_state |-> 7],
     data |-> [sample |-> <<"/", "data", "sample2.csv">>, test_size |-> "0.3",
               val_size |-> "0.1", stratify |-> "none"],
     etl |-> [min_price |-> 0, max_price |-> 500],
     data_check |-> [kl_threshold |-> "0.5"],
     pipeline |-> << <<"max_depth", "15">>,
                     <<"export_artifact", "model_export">> >>] }

MkConfig(b, es) ==
  [main |-> [project_name |-> b.main.project_name,
             experiment_name |-> b.main.experiment_name,
             random_state |-> b.main.random_state,
             execute_steps |-> es],
   data |-> b.data, etl |-> b.etl, data_check |-> b.data_check,
   pipeline |-> b.pipeline]

Configs == {MkConfig(b, es) : b \in BaseConfigs, es \in ExecuteStepsValues}

\* The directory the program was launched from (hydra's original cwd).
OriginalCwd == <<"/", "repo">>

\* The working directory go() runs in: the original one, or hydra's output
\* directory when the job is configured to change into it.
Cwds == {OriginalCwd, OriginalCwd \o <<"outputs", "run">>}

RfConfigPaths == {AbsPath(d, <<"rf_config.json">>) : d \in Cwds}

NoFile == [exists |-> FALSE, data |-> <<>>]

\* What a path may hold before the run: nothing, or a file of an earlier run.
InitialFiles == {NoFile, [exists |-> TRUE, data |-> <<"stale", "\n">>]}

EnvKeys == {"WANDB_PROJECT", "WANDB_RUN_GROUP"}

\* The process environment before the run: the keys unset, or left over.
InitialEnvirons == {[k \in EnvKeys |-> "unset"], [k \in EnvKeys |-> "leftover"]}

NoExc == [cls |-> "None", msg |-> <<>>]

\* What mlflow.run may raise: a failed run (an Exception) or an interrupt
\* (a BaseException that is no Exception).
RunnerErrors ==
  {[cls |-> "ExecutionException", msg |-> <<"Run (ID 'r1') failed">>],
   [cls |-> "KeyboardInterrupt", msg |-> <<>>]}

\* What open() or write() may raise.
WriteErrors == {[cls |-> "OSError", msg |-> <<"Permission denied: rf_config.json">>]}

\* The classes that `except Exception` catches.
IsException(e) == e.cls \in {"ExecutionException", "OSError"}

----------------------------------------------------------------------------
\* The state of one execution of go()

VARIABLES
  config,            \* the configuration hydra hands to go(); never assigned
  cwd,               \* the process's working directory
  environ,           \* os.environ at the two keys go() sets
  fs,                \* the files at the paths rf_config.json may resolve to
  root_path,         \* local of line 20
  steps_to_execute,  \* local of lines 22-25 (<<>> while unbound)
  rf_config,         \* local of line 101 (<<>> while unbound)
  tmp_dir,           \* "none", "exists" or "removed"
  pc,                \* the position in go()
  blk,               \* the index in StepOrder of the current guarded block
  running,           \* the step whose mlflow.run call is in flight, or "none"
  exc,               \* the exception being propagated, or NoExc
  calls,             \* history: the mlflow.run calls made, in order
  log,               \* history: the messages given to logger.error
  built,             \* history: the steps whose parameters were constructed
  reads,             \* history: <<step, section, key>> configuration reads
  writes,            \* history: the paths opened for writing
  runner_exc         \* history: what mlflow.run raised, or NoExc

vars ==
  <<config, cwd, environ, fs, root_path, steps_to_execute, rf_config, tmp_dir,
    pc, blk, running, exc, calls, log, built, reads, writes, runner_exc>>

Init ==
  /\ config \in Configs
  /\ cwd \in Cwds
  /\ environ \in InitialEnvirons
  /\ \E f \in InitialFiles : fs = [p \in RfConfigPaths |-> f]
  /\ root_path = <<>>
  /\ steps_to_execute = <<>>
  /\ rf_config = <<>>
  /\ tmp_dir = "none"
  /\ pc = "start"
  /\ blk = 1
  /\ running = "none"
  /\ exc = NoExc
  /\ calls = <<>>
  /\ log = <<>>
  /\ built = {}
  /\ reads = {}
  /\ writes = {}
  /\ runner_exc = NoExc

----------------------------------------------------------------------------
\* Pure parts of go()

\* An environment setup that takes the run group from the project name.
EnvironAfterSetup_same(cfg, env) ==
  [env EXCEPT !["WANDB_PROJECT"] = cfg.main.project_name,
              !["WANDB_RUN_GROUP"] = cfg.main.project_name]

\* Lines 16-17: the two assignments to os.environ.
EnvironAfterSetup(cfg, env) ==
  [env EXCEPT !["WANDB_PROJECT"] = cfg.main.project_name,
              !["WANDB_RUN_GROUP"] = cfg.main.experiment_name]

\* Lines 22-25: a string is split on commas, a list is taken as it is.
ResolveSteps(es) == IF es.form = "str" THEN Split(es.value) ELSE es.value

\* A guard that runs a block whenever the selection is not empty.
Selected_any(s) == steps_to_execute # <<>>

\* `"<step>" in steps_to_execute` of lines 29, 46, 65, 82, 98, 124.
Selected(s) ==
  \E i \in 1..Len(steps_to_execute) : steps_to_execute[i] = Str(s)

\* The first argument of mlflow.run: os.path.join(root_path, "components", s).
StepUri(root, s) == PathJoin(PathJoin(root, <<"components">>), <<s>>)

\* A parameter mapping with the two price bounds of data_check exchanged.
Parameters_swapped(s, cfg, root, rf) ==
  [csv |-> <<"nyc_airbnb/clean_data.csv:latest">>,
   ref |-> <<"nyc_airbnb/clean_data.csv:reference">>,
   kl_threshold |-> cfg.data_check.kl_threshold,
   min_price |-> cfg.etl.max_price,
   max_price |-> cfg.etl.min_price]

\* The `parameters` argument of each of the six mlflow.run calls.
Parameters(s, cfg, root, rf) ==
  CASE s = "data_get" ->
         [input_file |-> PathJoin(root, cfg.data.sample),
          artifact_name |-> <<"raw_data.csv">>,
          artifact_type |-> <<"raw_data">>,
          artifact_description |-> <<"Input raw dataset from csv file">>]
    [] s = "data_clean" ->
         [input_artifact |-> <<"nyc_airbnb/raw_data.csv:latest">>,
          output_artifact_name |-> <<"clean_data.csv">>,
          output_artifact_type |-> <<"clean_data">>,
          output_artifact_description |-> <<"Clean dataset with outliers removed">>,
          min_price |-> cfg.etl.min_price,
          max_price |-> cfg.etl.max_price]
    [] s = "data_check" ->
         [csv |-> <<"nyc_airbnb/clean_data.csv:latest">>,
          ref |-> <<"nyc_airbnb/clean_data.csv:reference">>,
          kl_threshold |-> cfg.data_check.kl_threshold,
          min_price |-> cfg.etl.min_price,
          max_price |-> cfg.etl.max_price]
    [] s = "data_split" ->
         [input_data |-> <<"nyc_airbnb/clean_data.csv:latest">>,
          test_size |-> cfg.data.test_size,
          random_state |-> cfg.main.random_state,
          stratify |-> cfg.data.stratify]
    [] s = "train_random_forest" ->
         [trainval_artifact |-> <<"nyc_airbnb/trainval_data.csv:latest">>,
          val_size |-> cfg.data.val_size,
          random_state |-> cfg.main.random_state,
          stratify |-> cfg.data.stratify,
          rf_config |-> rf,
          output_artifact |-> Lookup(cfg.pipeline, "export_artifact")]
    [] s = "test_model" ->
         [mlflow_model |-> <<"nyc_airbnb/", Lookup(cfg.pipeline, "export_artifact"), ":prod">>,
          test_dataset |-> <<"nyc_airbnb/test_data.csv:latest">>]

\* The configuration entries each block reads while it builds its parameters.
ConfigReads(s) ==
  CASE s = "data_get" -> {<<"data", "sample">>}
    [] s = "data_clean" -> {<<"etl", "min_price">>, <<"etl", "max_price">>}
    [] s = "data_check" ->
         {<<"data_check", "kl_threshold">>, <<"etl", "min_price">>, <<"etl", "max_price">>}
    [] s = "data_split" ->
         {<<"data", "test_size">>, <<"main", "random_state">>, <<"data", "stratify">>}
    [] s = "train_random_forest" ->
         {<<"data", "val_size">>, <<"main", "random_state">>, <<"data", "stratify">>,
          <<"pipeline", "export_artifact">>}
    [] s = "test_model" -> {<<"pipeline", "export_artifact">>}

\* A file opened for appending: the old content is kept.
FileWrite_append(old, data) == [exists |-> TRUE, data |-> old.data \o data]

\* open(path, "w+") followed by one write: the old content is gone.
FileWrite(old, data) == [exists |-> TRUE, data |-> data]

\* open(path, "w+") that succeeded followed by a write that failed.
FileTruncate(old) == [exists |-> TRUE, data |-> <<>>]

\* The text of logger.error(f"MLflow run failed: {e}").
LogMessage(e) == <<"MLflow run failed: ">> \o e.msg

\* A handler that raises a new exception in place of the one it caught.
Reraise_wrapped(e) == [cls |-> "RuntimeError", msg |-> e.msg]

\* The bare `raise` of the handlers: the caught exception itself.
Reraise(e) == e

\* A cleanup that is skipped while an exception is propagating.
Cleanup_on_success(at, d) == IF at = "exit" THEN "removed" ELSE d

\* TemporaryDirectory.__exit__: the directory is removed however the block
\* of line 27 is left.
Cleanup(at, d) == "removed"

----------------------------------------------------------------------------
\* The steps of go()

\* Lines 16-20: the environment is set and the project root looked up.
SetEnviron ==
  /\ pc = "start"
  /\ environ' = EnvironAfterSetup(config, environ)
  /\ root_path' = OriginalCwd
  /\ pc' = "resolve"
  /\ UNCHANGED <<config, cwd, fs, steps_to_execute, rf_config, tmp_dir, blk,
                 running, exc, calls, log, built, reads, writes, runner_exc>>

\* Lines 22-25.
Resolve ==
  /\ pc = "resolve"
  /\ steps_to_execute' = ResolveSteps(config.main.execute_steps)
  /\ pc' = "with"
  /\ UNCHANGED <<config, cwd, environ, fs, root_path, rf_config, tmp_dir, blk,
                 running, exc, calls, log, built, reads, writes, runner_exc>>

\* Line 27: the temporary directory is created and its block entered.
EnterTmpDir ==
  /\ pc = "with"
  /\ tmp_dir' = "exists"
  /\ pc' = "if"
  /\ UNCHANGED <<config, cwd, environ, fs, root_path, steps_to_execute,
                 rf_config, blk, running, exc, calls, log, built, reads, writes,
                 runner_exc>>

\* Where control goes once block b is over: the next block, or the end of
\* the `with` block after the last one.
PcAfterBlock(b) == IF b = Len(StepOrder) THEN "exit" ELSE "if"

\* The membership test of a block fails: the block is passed over.
SkipStep ==
  /\ pc = "if"
  /\ ~Selected(StepOrder[blk])
  /\ blk' = blk + 1
  /\ pc' = PcAfterBlock(blk)
  /\ UNCHANGED <<config, cwd, environ, fs, root_path, steps_to_execute,
                 rf_config, tmp_dir, running, exc, calls, log, built, reads,
                 writes, runner_exc>>

\* The membership test of a block succeeds: its `try` is entered.
EnterStep ==
  /\ pc = "if"
  /\ Selected(StepOrder[blk])
  /\ pc' = IF StepOrder[blk] = "train_random_forest" THEN "write" ELSE "call"
  /\ UNCHANGED <<config, cwd, environ, fs, root_path, steps_to_execute,
                 rf_config, tmp_dir, blk, running, exc, calls, log, built, reads,
                 writes, runner_exc>>

\* Lines 101-106: the pipeline section is written to rf_config.json.
WriteRfConfig ==
  /\ pc = "write"
  /\ LET path == AbsPath(cwd, <<"rf_config.json">>)
     IN /\ rf_config' = path
        /\ fs' = [fs EXCEPT ![path] = FileWrite(@, ToYaml(config.pipeline))]
        /\ writes' = writes \cup {path}
  /\ reads' = reads \cup {<<StepOrder[blk], "pipeline", "*">>}
  /\ pc' = "call"
  /\ UNCHANGED <<config, cwd, environ, root_path, steps_to_execute, tmp_dir,
                 blk, running, exc, calls, log, built, runner_exc>>

\* Lines 101-106 when open() raises (the file is untouched) or write()
\* raises (the file was truncated by open): control goes to the handler.
WriteRfConfigFails ==
  /\ pc = "write"
  /\ LET path == AbsPath(cwd, <<"rf_config.json">>)
     IN /\ rf_config' = path
        /\ \/ UNCHANGED <<fs, writes, reads>>
           \/ /\ fs' = [fs EXCEPT ![path] = FileTruncate(@)]
              /\ writes' = writes \cup {path}
              /\ reads' = reads \cup {<<StepOrder[blk], "pipeline", "*">>}
  /\ \E e \in WriteErrors : exc' = e
  /\ pc' = "except"
  /\ UNCHANGED <<config, cwd, environ, root_path, steps_to_execute, tmp_dir,
                 blk, running, calls, log, built, runner_exc>>

\* The parameters are built and mlflow.run is called; the call blocks.
Delegate ==
  /\ pc = "call"
  /\ LET s == StepOrder[blk]
     IN /\ calls' = Append(calls,
                      [uri |-> StepUri(root_path, s),
                       entry_point |-> "main",
                       parameters |-> Parameters(s, config, root_path, rf_config)])
        /\ built' = built \cup {s}
        /\ reads' = reads \cup {<<s, k[1], k[2]>> : k \in ConfigReads(s)}
        /\ running' = s
  /\ pc' = "run"
  /\ UNCHANGED <<config, cwd, environ, fs, root_path, steps_to_execute,
                 rf_config, tmp_dir, blk, exc, log, writes, runner_exc>>

\* mlflow.run returns: the block is over.
RunReturns ==
  /\ pc = "run"
  /\ running' = "none"
  /\ blk' = blk + 1
  /\ pc' = PcAfterBlock(blk)
  /\ UNCHANGED <<config, cwd, environ, fs, root_path, steps_to_execute,
                 rf_config, tmp_dir, exc, calls, log, built, reads, writes,
                 runner_exc>>

\* mlflow.run raises: an Exception goes to the block's handler, anything
\* else leaves the `with` block at once.
RunRaises ==
  /\ pc = "run"
  /\ \E e \in RunnerErrors :
       /\ exc' = e
       /\ runner_exc' = e
       /\ pc' = IF IsException(e) THEN "except" ELSE "unwind"
  /\ running' = "none"
  /\ UNCHANGED <<config, cwd, environ, fs, root_path, steps_to_execute,
                 rf_config, tmp_dir, blk, calls, log, built, reads, writes>>

\* A handler that logs and then lets go() carry on with the next block.
Except_swallow ==
  /\ pc = "except"
  /\ log' = Append(log, LogMessage(exc))
  /\ exc' = NoExc
  /\ blk' = blk + 1
  /\ pc' = PcAfterBlock(blk)
  /\ UNCHANGED <<config, cwd, environ, fs, root_path, steps_to_execute,
                 rf_config, tmp_dir, running, calls, built, reads, writes,
                 runner_exc>>

\* The handler of a block (lines 42-44 and its five copies): log, re-raise.
Except ==
  /\ pc = "except"
  /\ log' = Append(log, LogMessage(exc))
  /\ exc' = Reraise(exc)
  /\ pc' = "unwind"
  /\ UNCHANGED <<config, cwd, environ, fs, root_path, steps_to_execute,
                 rf_config, tmp_dir, blk, running, calls, built, reads, writes,
                 runner_exc>>

\* The `with` block of line 27 is left, normally or by an exception: the
\* temporary directory is cleaned up and go() ends.
ExitTmpDir ==
  /\ pc \in {"exit", "unwind"}
  /\ tmp_dir' = Cleanup(pc, tmp_dir)
  /\ pc' = IF pc = "exit" THEN "done" ELSE "failed"
  /\ UNCHANGED <<config, cwd, environ, fs, root_path, steps_to_execute,
                 rf_config, blk, running, exc, calls, log, built, reads, writes,
                 runner_exc>>

Next ==
  \/ SetEnviron
  \/ Resolve
  \/ EnterTmpDir
  \/ SkipStep
  \/ EnterStep
  \/ WriteRfConfig
  \/ WriteRfConfigFails
  \/ Delegate
  \/ RunReturns
  \/ RunRaises
  \/ Except
  \/ ExitTmpDir

Spec == Init /\ [][Next]_vars

----------------------------------------------------------------------------
\* Vocabulary of the properties

\* The fixed order, as the specification states it.
FixedOrder ==
  <<"data_get", "data_clean", "data_check", "data_split",
    "train_random_forest", "test_model">>

FixedSteps == {FixedOrder[k] : k \in 1..Len(FixedOrder)}

\* The step a call was delegated to: the last component of its directory.
StepOf(c) == c.uri[Len(c.uri)]

Pos(s) == CHOOSE k \in 1..Len(FixedOrder) : FixedOrder[k] = s

CallsTo(s) == {i \in 1..Len(calls) : StepOf(calls[i]) = s}

\* The selection has been resolved (line 25 is behind).
Resolved == pc \notin {"start", "resolve"}

\* s is a member of the resolved selection.
InSelection(s) ==
  Resolved /\ \E i \in 1..Len(steps_to_execute) : steps_to_execute[i] = <<s>>

\* go() has ended.
Ended == pc \in {"done", "failed"}

\* The steps of the fixed order from position k on that are in sel, in that
\* order.
RECURSIVE OrderedFrom(_, _)
OrderedFrom(k, sel) ==
  IF k > Len(FixedOrder) THEN <<>>
  ELSE (IF FixedOrder[k] \in sel THEN <<FixedOrder[k]>> ELSE <<>>)
         \o OrderedFrom(k + 1, sel)

\* The steps of calls, in the order of the calls.
CallSteps == [i \in 1..Len(calls) |-> StepOf(calls[i])]

\* No name of the list contains a comma.
CommaFree(n) == \A i \in 1..Len(n) : FirstComma(n[i], 1) = 0

\* A YAML text of "key: value" lines read back as an ordered mapping;
\* <<"unparsable">> when the text is no such sequence of lines.
ParseYaml(text) ==
  IF /\ Len(text) % 4 = 0
     /\ \A i \in 1..Len(text) :
          /\ (i % 4 = 2 => text[i] = ": ")
          /\ (i % 4 = 0 => text[i] = "\n")
  THEN [k \in 1..(Len(text) \div 4) |-> <<text[4 * k - 3], text[4 * k - 1]>>]
  ELSE <<"unparsable">>

\* A lexeme of the message is the text w.
Mentions(m, w) == \E i \in 1..Len(m) : m[i] = w

\* The message ends with the text of the cause.
EndsWith(m, tail) ==
  Len(m) >= Len(tail) /\ SubSeq(m, Len(m) - Len(tail) + 1, Len(m)) = tail

----------------------------------------------------------------------------
\* C1: the delegations made so far are, in the order they were made, a
\* subsequence of the fixed order data_get, data_clean, data_check,
\* data_split, train_random_forest, test_model, whatever the order of the
\* names in execute_steps; and no block is being considered (tested,
\* prepared or called) while a delegation is still in flight.
C1_FixedOrder ==
  /\ \A i, j \in 1..Len(calls) :
       i < j => Pos(StepOf(calls[i])) < Pos(StepOf(calls[j]))
  /\ (running # "none" =>
        /\ pc = "run"
        /\ calls # <<>>
        /\ StepOf(calls[Len(calls)]) = running)
  /\ (pc \in {"if", "write", "call"} => running = "none")

\* All six steps were delegated although execute_steps lists them in reverse.
C1_Witness ==
  /\ pc = "done"
  /\ Len(calls) = 6
  /\ config.main.execute_steps.form = "list"
  /\ config.main.execute_steps.value[1] = <<"test_model">>

\* C2: once a delegation has raised, no further delegation is made (neither
\* of a later step nor of the failing one again), and go() does not carry
\* on: it ends by propagating an error, never normally.
C2_StopsAtFirstFailure ==
  /\ [][runner_exc # NoExc => calls' = calls /\ running' = "none"]_vars
  /\ [](runner_exc # NoExc =>
          /\ pc \in {"except", "unwind", "failed"}
          /\ exc # NoExc
          /\ Cardinality(CallsTo(StepOf(calls[Len(calls)]))) = 1)

\* go() has failed on a raising step while a later step was selected.
C2_Witness ==
  /\ pc = "failed"
  /\ runner_exc # NoExc
  /\ \E s \in FixedSteps :
       /\ Pos(s) > Pos(StepOf(calls[Len(calls)]))
       /\ InSelection(s)

\* C3: a step of the fixed enumeration that is not a member of the resolved
\* selection has no delegation, no parameter mapping built and no
\* configuration value read for it; and when that step is
\* train_random_forest, no file has been opened for writing and every
\* candidate path still holds what it held before the run.
C3_UnselectedUntouched ==
  \A s \in FixedSteps :
    ~InSelection(s) =>
      /\ CallsTo(s) = {}
      /\ s \notin built
      /\ \A r \in reads : r[1] # s
      /\ (s = "train_random_forest" =>
            /\ writes = {}
            /\ rf_config = <<>>
            /\ \A p \in DOMAIN fs : fs[p] \in InitialFiles)

\* A run that delegated a step has ended in failure without
\* train_random_forest in its selection.
C3_Witness ==
  /\ pc = "failed"
  /\ calls # <<>>
  /\ ~InSelection("train_random_forest")
  /\ InSelection("test_model")

\* C4: the temporary directory exists from the first membership test to the
\* end of the `with` block, in particular while a delegation is in flight,
\* and is removed once go() has ended, normally or by an exception.
C4_TmpDirScoped ==
  /\ (running # "none" => tmp_dir = "exists")
  /\ (pc \in {"if", "write", "call", "run", "except", "exit", "unwind"} =>
        tmp_dir = "exists")
  /\ (Ended => tmp_dir = "removed")

\* go() was left by an interrupt that no handler caught.
C4_Witness ==
  /\ pc = "failed"
  /\ runner_exc.cls = "KeyboardInterrupt"
  /\ tmp_dir = "removed"

C6_AsStated ==
  \A n \in Selections :
    (/\ Resolved
     /\ config.main.execute_steps.form = "str"
     /\ config.main.execute_steps.value = CommaJoin(n))
      => steps_to_execute = n

\* C6 amended: for every list of names without a comma in them, the
\* comma-joined string selects the same steps as the list, and so is
\* followed by delegations to the same steps in the same order; the resolved
\* selection is the list itself when the list is not empty (the empty list
\* written as the empty string resolves to the one-element list [""]).
C6_StringLikeList ==
  \A n \in Selections :
    (/\ Resolved
     /\ config.main.execute_steps.form = "str"
     /\ config.main.execute_steps.value = CommaJoin(n)
     /\ CommaFree(n))
      => /\ (n # <<>> => steps_to_execute = n)
         /\ (n = <<>> => steps_to_execute = << <<>> >>)
         /\ \A s \in FixedSteps :
              InSelection(s) <=> \E i \in 1..Len(n) : n[i] = <<s>>
         /\ \A i \in 1..Len(calls) :
              \E k \in 1..Len(n) : n[k] = <<StepOf(calls[i])>>
         /\ (pc = "done" =>
               CallSteps =
                 OrderedFrom(1, {s \in FixedSteps : \E k \in 1..Len(n) : n[k] = <<s>>}))

\* A run given the string "data_clean,data_get" has ended after two
\* delegations.
C6_Witness ==
  /\ pc = "done"
  /\ config.main.execute_steps.form = "str"
  /\ config.main.execute_steps.value = <<"data_clean", ",", "data_get">>
  /\ CallSteps = <<"data_get", "data_clean">>

\* C7: whenever train_random_forest has been delegated, the file at the
\* absolute path of rf_config.json in the working directory exists and holds
\* the serialized pipeline section, which reads back as the section itself;
\* the rf_config parameter of the call is that absolute path; and when the
\* serialization failed no such delegation was made.
C7_ConfigSerializedFirst ==
  /\ \A i \in CallsTo("train_random_forest") :
       LET path == calls[i].parameters.rf_config
       IN /\ IsAbs(path)
          /\ path = cwd \o <<"rf_config.json">>
          /\ path \in writes
          /\ fs[path].exists
          /\ ParseYaml(fs[path].data) = config.pipeline
  /\ (exc.cls = "OSError" => CallsTo("train_random_forest") = {})

\* The train_random_forest delegation is in flight in a run whose working
\* directory is hydra's output directory.
C7_Witness ==
  /\ running = "train_random_forest"
  /\ cwd # OriginalCwd

\* C8: no delegation is made before the two environment values are set, and
\* from then on WANDB_PROJECT holds main.project_name and WANDB_RUN_GROUP
\* holds main.experiment_name in every state, so during every delegation.
C8_EnvironSetOnce ==
  /\ (pc = "start" => calls = <<>> /\ running = "none")
  /\ (pc # "start" =>
        /\ environ["WANDB_PROJECT"] = config.main.project_name
        /\ environ["WANDB_RUN_GROUP"] = config.main.experiment_name)

\* The second delegation of a run is in flight.
C8_Witness ==
  /\ running # "none"
  /\ Len(calls) = 2

\* C9: with execute_steps = ["data_check"], go() never makes more than one
\* delegation, and when it has ended it has made exactly one: directory
\* <root>/components/data_check, entry point "main", and exactly the five
\* parameters csv, ref, kl_threshold, min_price, max_price, the last three
\* being the configuration's values.
C9_DataCheckOnly ==
  (/\ config.main.execute_steps.form = "list"
   /\ config.main.execute_steps.value = << <<"data_check">> >>)
    => /\ Len(calls) <= 1
       /\ (Ended =>
             calls =
               << [uri |-> OriginalCwd \o <<"components", "data_check">>,
                   entry_point |-> "main",
                   parameters |->
                     [csv |-> <<"nyc_airbnb/clean_data.csv:latest">>,
                      ref |-> <<"nyc_airbnb/clean_data.csv:reference">>,
                      kl_threshold |-> config.data_check.kl_threshold,
                      min_price |-> config.etl.min_price,
                      max_price |-> config.etl.max_price]] >>)

\* A run with execute_steps = ["data_check"] has ended normally.
C9_Witness ==
  /\ pc = "done"
  /\ config.main.execute_steps.form = "list"
  /\ config.main.execute_steps.value = << <<"data_check">> >>
  /\ Len(calls) = 1

====
